---- MODULE Spec2Model ----
(***************************************************************************)
(* A model of the bencode package: the Decoder (a recursive-descent parser *)
(* over a byte buffer and a cursor) and the Encoder (a recursive emitter   *)
(* appending to Bytes).                                                    *)
(*                                                                         *)
(* Bytes are their ASCII codes.  A Go value (interface{}) is a record      *)
(* [k |-> kind, v |-> payload]: k = "int" (v an integer), "str" (v a       *)
(* sequence of bytes), "list" (v a sequence of values), "dict" (v a        *)
(* function from keys, sequences of bytes, to values) or "nil".            *)
(* An index expression stream[i] with i >= len(stream) is a Go run-time    *)
(* panic; every operator that indexes the stream reports it in the field   *)
(* panic of its result, with the cursor as it stood at the faulting read.  *)
(***************************************************************************)
EXTENDS Integers, Sequences, FiniteSets, TLC

VARIABLES
    stream,    \* Decoder.stream
    pos,       \* Decoder.pos
    Consumed,  \* Decoder.Consumed
    Last,      \* Decoder.Last
    Bytes,     \* Encoder.Bytes
    encoded,   \* the values passed to Encoder.Encode so far, in call order
    call,      \* the last operation: "new", "Encode", "NewDecoder", "Decode", "DecodeAll"
    res,       \* the value the last Decode / DecodeAll returned
    err,       \* the error it returned (ErrNil when none)
    panicked,  \* TRUE when the last call ended in a run-time panic (index out of range)
    first      \* TRUE when the last call was the first one made on its decoder

vars == <<stream, pos, Consumed, Last, Bytes, encoded, call, res, err, panicked, first>>

----------------------------------------------------------------------------
(* Byte literals of the source. *)
ChI == 105
ChL == 108
ChD == 100
ChE == 101
Ch0 == 48
Ch9 == 57
ChColon == 58
ChMinus == 45

(* Bounds of the model. *)
MaxLen == 5
MaxNodes == 3

----------------------------------------------------------------------------
(* Values. *)
Nil == [k |-> "nil", v |-> 0]
IntV(n) == [k |-> "int", v |-> n]
StrV(s) == [k |-> "str", v |-> s]
ListV(l) == [k |-> "list", v |-> l]
DictV(m) == [k |-> "dict", v |-> m]

ErrNil == "nil"

(* s[from:to], a Go slice expression over 0-based offsets. *)
Slice(s, from, to) == SubSeq(s, from + 1, to)

(* m[key] = val on a Go map: the last write for a key wins. *)
MapSet(m, key, val) == [x \in (DOMAIN m) \cup {key} |-> IF x = key THEN val ELSE m[x]]

----------------------------------------------------------------------------
(* strconv.Atoi on a byte span: an optional sign, then one or more decimal *)
(* digits.  (The 64-bit range error needs 19 digits, more than a buffer of *)
(* the bounded length holds.)                                              *)
RECURSIVE DigitsVal(_)
DigitsVal(ds) ==
    IF Len(ds) = 0 THEN 0
    ELSE 10 * DigitsVal(SubSeq(ds, 1, Len(ds) - 1)) + (ds[Len(ds)] - Ch0)

Atoi(s) ==
    LET signed == Len(s) > 0 /\ s[1] \in {43, ChMinus}
        ds == IF signed THEN Tail(s) ELSE s
    IN  IF Len(ds) = 0 \/ (\E i \in 1..Len(ds) : ds[i] < Ch0 \/ ds[i] > Ch9)
        THEN [ok |-> FALSE, val |-> 0]
        ELSE [ok |-> TRUE,
              val |-> IF signed /\ s[1] = ChMinus THEN 0 - DigitsVal(ds) ELSE DigitsVal(ds)]

(* fmt.Sprintf("%d", n) *)
RECURSIVE FormatNat(_)
FormatNat(n) ==
    IF n < 10 THEN <<Ch0 + n>> ELSE FormatNat(n \div 10) \o <<Ch0 + (n % 10)>>

FormatInt(n) == IF n < 0 THEN <<ChMinus>> \o FormatNat(0 - n) ELSE FormatNat(n)

----------------------------------------------------------------------------
(* The Decoder.  Every parser takes the stream and the decoder's mutable   *)
(* fields (pos, Consumed) and returns them with its results.               *)
Ret(r, e, p, c) == [res |-> r, err |-> e, pos |-> p, Consumed |-> c, panic |-> FALSE]
Panic(p, c) == [res |-> Nil, err |-> ErrNil, pos |-> p, Consumed |-> c, panic |-> TRUE]

(* nextInteger's scan for the terminating 'e', from idx. *)
RECURSIVE integerScan(_, _)
integerScan(s, idx) ==
    IF idx >= Len(s) THEN [panic |-> TRUE, err |-> ErrNil, idx |-> idx]
    ELSE IF s[idx + 1] = ChE THEN [panic |-> FALSE, err |-> ErrNil, idx |-> idx]
    ELSE IF (s[idx + 1] < Ch0 \/ s[idx + 1] > Ch9) /\ s[idx + 1] # ChMinus
         THEN [panic |-> FALSE, err |-> "Invalid byte in encoded integer", idx |-> idx]
    ELSE IF idx + 1 >= Len(s)
         THEN [panic |-> FALSE, err |-> "No ending 'e' found", idx |-> idx + 1]
    ELSE integerScan(s, idx + 1)

nextInteger(s, p, c) ==
    IF ~(p < Len(s)) THEN Ret(IntV(0), "Reached the end of the stream", p, c)
    ELSE IF s[p + 1] # ChI THEN Ret(IntV(0), "No starting 'i' found", p, c)
    ELSE LET sc == integerScan(s, p + 1) IN
         IF sc.panic THEN Panic(p, c)
         ELSE IF sc.err # ErrNil THEN Ret(IntV(0), sc.err, p, c)
         ELSE LET a == Atoi(Slice(s, p + 1, sc.idx)) IN
              IF ~a.ok THEN Ret(IntV(0), "strconv.Atoi: invalid syntax", p, c)
              ELSE Ret(IntV(a.val), ErrNil, sc.idx + 1, c)

(* nextString's scan for the ':' that ends the length, from len_end. *)
RECURSIVE lengthScan(_, _)
lengthScan(s, len_end) ==
    IF s[len_end + 1] = ChColon THEN [found |-> TRUE, len_end |-> len_end]
    ELSE IF len_end + 1 >= Len(s) THEN [found |-> FALSE, len_end |-> len_end + 1]
    ELSE lengthScan(s, len_end + 1)

nextString(s, p, c) ==
    IF ~(p < Len(s)) THEN Ret(StrV(<<>>), "Reached the end of the stream", p, c)
    ELSE IF s[p + 1] < Ch0 \/ s[p + 1] > Ch9
         THEN Ret(StrV(<<>>), "No string length determinator found", p, c)
    ELSE LET sc == lengthScan(s, p) IN
         IF ~sc.found THEN Ret(StrV(<<>>), "No string found ...", p, c)
         ELSE LET a == Atoi(Slice(s, p, sc.len_end)) IN
              IF ~a.ok THEN Ret(StrV(<<>>), "Couldn't parse string length specifier", p, c)
              ELSE IF a.val >= Len(s) - sc.len_end
                   THEN Ret(StrV(<<>>), "Specified length longer than data buffer ...", p, c)
              ELSE Ret(StrV(Slice(s, sc.len_end + 1, sc.len_end + 1 + a.val)),
                       ErrNil, sc.len_end + 1 + a.val, c)

RECURSIVE nextObject(_, _, _)
RECURSIVE listLoop(_, _, _, _)
RECURSIVE dictLoop(_, _, _, _)

(* The body of nextList's for loop; acc is res so far. *)
listLoop(s, p, c, acc) ==
    LET o == nextObject(s, p, c) IN
    IF o.panic THEN o
    ELSE IF o.err # ErrNil THEN Ret(ListV(acc), o.err, o.pos, o.Consumed)
    ELSE IF o.pos >= Len(s) THEN Panic(o.pos, o.Consumed)
    ELSE IF s[o.pos + 1] = ChE
         THEN Ret(ListV(Append(acc, o.res)), ErrNil, o.pos + 1, o.Consumed)
    ELSE listLoop(s, o.pos, o.Consumed, Append(acc, o.res))

nextList(s, p, c) ==
    IF ~(p < Len(s)) THEN Ret(ListV(<<>>), "Reached the end of the stream", p, c)
    ELSE IF s[p + 1] # ChL THEN Ret(ListV(<<>>), "This is not a list!", p, c)
    ELSE listLoop(s, p + 1, c, <<>>)

(* The body of nextDict's for loop; acc is res so far. *)
dictLoop(s, p, c, acc) ==
    LET key == nextString(s, p, c) IN
    IF key.err # ErrNil THEN Ret(DictV(acc), key.err, key.pos, key.Consumed)
    ELSE LET val == nextObject(s, key.pos, key.Consumed) IN
         IF val.panic THEN val
         ELSE IF val.err # ErrNil THEN Ret(DictV(acc), val.err, val.pos, val.Consumed)
         ELSE IF val.pos >= Len(s) THEN Panic(val.pos, val.Consumed)
         ELSE IF s[val.pos + 1] = ChE
              THEN Ret(DictV(MapSet(acc, key.res.v, val.res)), ErrNil, val.pos + 1, val.Consumed)
         ELSE dictLoop(s, val.pos, val.Consumed, MapSet(acc, key.res.v, val.res))

nextDict(s, p, c) ==
    IF ~(p < Len(s)) THEN Ret(DictV(<<>>), "Reached the end of the stream", p, c)
    ELSE IF s[p + 1] # ChD THEN Ret(DictV(<<>>), "This is not a dict!", p, c)
    ELSE dictLoop(s, p + 1, c, <<>>)

(* markConsumed without the test of pos against the length *)
markConsumedNever(s, r) == r

(* What nextObject does to Consumed after the dispatch. *)
markConsumed(s, r) ==
    IF r.panic THEN r
    ELSE [r EXCEPT !.Consumed = IF r.pos >= Len(s) THEN TRUE ELSE r.Consumed]

nextObject(s, p, c) ==
    IF c THEN Ret(Nil, "This parser's token stream is consumed!", p, c)
    ELSE IF p >= Len(s) THEN Panic(p, c)
    ELSE LET b == s[p + 1] IN
         markConsumed(s,
            IF b = ChI THEN nextInteger(s, p, c)
            ELSE IF b >= Ch0 /\ b <= Ch9 THEN nextString(s, p, c)
            ELSE IF b = ChL THEN nextList(s, p, c)
            ELSE IF b = ChD THEN nextDict(s, p, c)
            ELSE Ret(Nil, "Couldn't parse", p, c))

(* decodeAllLoop leaving the loop on pos > len(stream) only *)
RECURSIVE decodeAllLoopPast(_, _, _, _)
decodeAllLoopPast(s, p, c, acc) ==
    LET o == nextObject(s, p, c) IN
    IF o.panic THEN o
    ELSE IF o.err # ErrNil THEN Ret(ListV(acc), o.err, o.pos, o.Consumed)
    ELSE IF o.pos > Len(s) THEN Ret(ListV(Append(acc, o.res)), ErrNil, o.pos, o.Consumed)
    ELSE decodeAllLoopPast(s, o.pos, o.Consumed, Append(acc, o.res))

(* The body of DecodeAll's for loop; acc is res so far. *)
RECURSIVE decodeAllLoop(_, _, _, _)
decodeAllLoop(s, p, c, acc) ==
    LET o == nextObject(s, p, c) IN
    IF o.panic THEN o
    ELSE IF o.err # ErrNil THEN Ret(ListV(acc), o.err, o.pos, o.Consumed)
    ELSE IF o.pos >= Len(s) THEN Ret(ListV(Append(acc, o.res)), ErrNil, o.pos, o.Consumed)
    ELSE decodeAllLoop(s, o.pos, o.Consumed, Append(acc, o.res))

----------------------------------------------------------------------------
(* The Encoder. *)

(* Go's a < b on strings: byte-wise lexicographic order. *)
RECURSIVE StringLess(_, _)
StringLess(a, b) ==
    IF Len(b) = 0 THEN FALSE
    ELSE IF Len(a) = 0 THEN TRUE
    ELSE IF a[1] < b[1] THEN TRUE
    ELSE IF a[1] > b[1] THEN FALSE
    ELSE StringLess(Tail(a), Tail(b))

(* sort.Strings(keys): keys in ascending order (by insertion). *)
RECURSIVE insertSorted(_, _)
insertSorted(sorted, key) ==
    IF Len(sorted) = 0 THEN <<key>>
    ELSE IF StringLess(key, Head(sorted)) THEN <<key>> \o sorted
    ELSE <<Head(sorted)>> \o insertSorted(Tail(sorted), key)

RECURSIVE SortStrings(_)
SortStrings(keys) ==
    IF Len(keys) = 0 THEN <<>>
    ELSE insertSorted(SortStrings(SubSeq(keys, 1, Len(keys) - 1)), keys[Len(keys)])

(* `for k, _ := range m`: Go leaves a map's iteration order unspecified;   *)
(* order is the order this run's iterations take, a sequence holding       *)
(* every key once.                                                         *)
rangeKeys(m, order) == SelectSeq(order, LAMBDA key : key \in DOMAIN m)

encodeString(s) == FormatInt(Len(s)) \o <<ChColon>> \o s

encodeInteger(i) == <<ChI>> \o FormatInt(i) \o <<ChE>>

RECURSIVE encodeObject(_, _)
RECURSIVE encodeItems(_, _)
RECURSIVE encodePairs(_, _, _)

(* encodeList's loop: the encodings of the items, in order. *)
encodeItems(list, order) ==
    IF Len(list) = 0 THEN <<>>
    ELSE encodeObject(Head(list), order) \o encodeItems(Tail(list), order)

encodeList(list, order) ==
    IF Len(list) <= 0 THEN <<>>
    ELSE <<ChL>> \o encodeItems(list, order) \o <<ChE>>

(* encodeDict's second loop: each key of keys, then its value. *)
encodePairs(m, keys, order) ==
    IF Len(keys) = 0 THEN <<>>
    ELSE encodeString(Head(keys)) \o encodeObject(m[Head(keys)], order)
         \o encodePairs(m, Tail(keys), order)

(* dictKeys without the sort *)
dictKeysUnsorted(m, order) == rangeKeys(m, order)

(* The key order encodeDict emits: the map's keys as ranged over, sorted. *)
dictKeys(m, order) == SortStrings(rangeKeys(m, order))

encodeDict(m, order) ==
    IF Cardinality(DOMAIN m) <= 0 THEN <<>>
    ELSE <<ChD>> \o encodePairs(m, dictKeys(m, order), order) \o <<ChE>>

encodeObject(in, order) ==
    CASE in.k = "str" -> encodeString(in.v)
      [] in.k = "int" -> encodeInteger(in.v)
      [] in.k = "list" -> encodeList(in.v, order)
      [] in.k = "dict" -> encodeDict(in.v, order)

----------------------------------------------------------------------------
(* The inputs: the values given to Encode and the buffers given to         *)
(* NewDecoder.                                                             *)
Ints == {-1, 10}
Strs == {<<>>, <<97>>}
Keys == {<<>>, <<98>>, <<97, 98>>}
Atoms == {IntV(n) : n \in Ints} \cup {StrV(s) : s \in Strs}

(* The orders a map over Keys can be ranged in. *)
Orders == {o \in [1..Cardinality(Keys) -> Keys] : \A i, j \in DOMAIN o : i # j => o[i] # o[j]}

(* The maps with the values of forest f, one per key. *)
DictsFrom(f) ==
    {[key \in K |-> f[1 + Cardinality({x \in K : StringLess(x, key)})]] :
        K \in {K \in SUBSET Keys : Cardinality(K) = Len(f)}}

(* Forest(n): the sequences of values of n nodes in all; Tree(n): the      *)
(* values of n nodes (an integer, a string, a list or a dict is one node,  *)
(* plus the nodes of its items).                                           *)
RECURSIVE Forest(_)
RECURSIVE Tree(_)
Forest(n) ==
    IF n = 0 THEN {<<>>}
    ELSE UNION {{<<t>> \o f : t \in Tree(j), f \in Forest(n - j)} : j \in 1..n}

Tree(n) ==
    (IF n = 1 THEN Atoms ELSE {})
    \cup {ListV(f) : f \in Forest(n - 1)}
    \cup UNION {{DictV(m) : m \in DictsFrom(f)} : f \in Forest(n - 1)}

ValuesBySize == [n \in 0..MaxNodes |-> UNION {Tree(j) : j \in 1..n}]

(* The values of map m, each once. *)
MapValues(m) ==
    LET ks == rangeKeys(m, CHOOSE o \in Orders : TRUE) IN [i \in 1..Len(ks) |-> m[ks[i]]]

RECURSIVE NodeCount(_)
RECURSIVE NodeCountAll(_)
NodeCount(v) ==
    CASE v.k = "list" -> 1 + NodeCountAll(v.v)
      [] v.k = "dict" -> 1 + NodeCountAll(MapValues(v.v))
      [] OTHER -> 1

NodeCountAll(l) == IF Len(l) = 0 THEN 0 ELSE NodeCount(Head(l)) + NodeCountAll(Tail(l))

Alphabet == {ChI, ChL, ChD, ChE, Ch0, Ch0 + 1, ChColon, ChMinus}
Buffers == UNION {[1..n -> Alphabet] : n \in 0..MaxLen}

----------------------------------------------------------------------------
(* The operations. *)

NoDecoder == /\ stream = <<>> /\ pos = 0 /\ Consumed = FALSE /\ Last = 0

(* NewEncoder(): an Encoder with no Bytes; no Decoder yet. *)
Init ==
    /\ Bytes = <<>>
    /\ encoded = <<>>
    /\ NoDecoder
    /\ call = "new"
    /\ res = Nil
    /\ err = ErrNil
    /\ panicked = FALSE
    /\ first = FALSE

(* Encode assigning Bytes instead of appending to it *)
EncodeOverwrite ==
    /\ call \in {"new", "Encode"}
    /\ NodeCountAll(encoded) < MaxNodes
    /\ \E in \in ValuesBySize[MaxNodes - NodeCountAll(encoded)], order \in Orders :
        LET b == encodeObject(in, order) IN
        /\ Bytes' = IF Len(b) > 0 THEN b ELSE Bytes
        /\ encoded' = Append(encoded, in)
    /\ call' = "Encode"
    /\ UNCHANGED <<stream, pos, Consumed, Last, res, err, panicked, first>>

(* enc.Encode(in) *)
Encode ==
    /\ call \in {"new", "Encode"}
    /\ NodeCountAll(encoded) < MaxNodes
    /\ \E in \in ValuesBySize[MaxNodes - NodeCountAll(encoded)], order \in Orders :
        LET b == encodeObject(in, order) IN
        /\ Bytes' = IF Len(b) > 0 THEN Bytes \o b ELSE Bytes
        /\ encoded' = Append(encoded, in)
    /\ call' = "Encode"
    /\ UNCHANGED <<stream, pos, Consumed, Last, res, err, panicked, first>>

(* NewDecoder(enc.Bytes) *)
NewDecoder ==
    /\ call \in {"new", "Encode"}
    /\ stream' = Bytes
    /\ pos' = 0
    /\ Consumed' = FALSE
    /\ Last' = 0
    /\ call' = "NewDecoder"
    /\ UNCHANGED <<Bytes, encoded, res, err, panicked, first>>

HasDecoder == call \in {"NewDecoder", "Decode", "DecodeAll"} /\ ~panicked

(* What a call leaves in the decoder and hands back, given its outcome r. *)
Returned(name, r, last) ==
    /\ call' = name
    /\ first' = (call = "NewDecoder")
    /\ pos' = r.pos
    /\ Consumed' = r.Consumed
    /\ Last' = last
    /\ res' = r.res
    /\ err' = r.err
    /\ panicked' = r.panic
    /\ UNCHANGED <<stream, Bytes, encoded>>

(* d.Decode() *)
Decode ==
    /\ HasDecoder
    /\ LET r == nextObject(stream, pos, Consumed) IN
       Returned("Decode", r, IF ~r.panic /\ r.err = ErrNil THEN r.pos ELSE Last)

(* d.DecodeAll() *)
DecodeAll ==
    /\ HasDecoder
    /\ LET r == decodeAllLoop(stream, pos, Consumed, <<>>) IN
       Returned("DecodeAll", r, Last)

Next == Encode \/ NewDecoder \/ Decode \/ DecodeAll

Spec == Init /\ [][Next]_vars

(* NewDecoder(b) over any buffer b, with no Encoder. *)
InitDec ==
    /\ stream \in Buffers
    /\ pos = 0
    /\ Consumed = FALSE
    /\ Last = 0
    /\ Bytes = <<>>
    /\ encoded = <<>>
    /\ call = "NewDecoder"
    /\ res = Nil
    /\ err = ErrNil
    /\ panicked = FALSE
    /\ first = FALSE

NextDec == Decode \/ DecodeAll

SpecDec == InitDec /\ [][NextDec]_vars

----------------------------------------------------------------------------
(* Properties. *)

Called(name) == call = name /\ first
Failed == ~panicked /\ err # ErrNil
Succeeded == ~panicked /\ err = ErrNil

RECURSIVE NoEmptyCollection(_)
NoEmptyCollection(v) ==
    CASE v.k = "list" -> Len(v.v) > 0 /\ \A i \in 1..Len(v.v) : NoEmptyCollection(v.v[i])
      [] v.k = "dict" -> DOMAIN v.v # {} /\ \A key \in DOMAIN v.v : NoEmptyCollection(v.v[key])
      [] OTHER -> TRUE

(* a before b in byte-wise lexicographic order *)
LexLess(a, b) ==
    \E n \in 0..Len(a) :
        /\ n <= Len(b)
        /\ \A i \in 1..n : a[i] = b[i]
        /\ \/ n = Len(a) /\ n < Len(b)
           \/ n < Len(a) /\ n < Len(b) /\ a[n + 1] < b[n + 1]

(* the keys of m in strictly ascending order *)
Ascending(m) ==
    CHOOSE q \in [1..Cardinality(DOMAIN m) -> DOMAIN m] :
        \A i, j \in DOMAIN q : i < j => LexLess(q[i], q[j])

RECURSIVE ConcatEncodings(_, _)
ConcatEncodings(values, order) ==
    IF Len(values) = 0 THEN <<>>
    ELSE ConcatEncodings(SubSeq(values, 1, Len(values) - 1), order)
         \o encodeObject(values[Len(values)], order)

IsPrefix(a, b) == Len(a) <= Len(b) /\ SubSeq(b, 1, Len(a)) = a

(* C1: Decode on a fresh decoder over Encode(v) returns v and no error,    *)
(* for every value v, empty lists and dicts included.                      *)
C1_RoundTrip ==
    (Called("Decode") /\ Len(encoded) = 1) => (Succeeded /\ res = encoded[1])

(* C2: Decode and DecodeAll on a fresh decoder over an empty buffer return *)
(* an error and read nothing outside the buffer.                           *)
C2_EmptyBufferFails ==
    (first /\ call \in {"Decode", "DecodeAll"} /\ stream = <<>>) => Failed

(* C3: a Decode that succeeds with the cursor at the end of the buffer     *)
(* leaves the decoder exhausted (Consumed), and every call on an exhausted *)
(* decoder returns an error and no value, and leaves pos, Consumed and     *)
(* Last as they were.                                                      *)
C3_ExhaustedDecoderFails ==
    /\ []((call = "Decode" /\ Succeeded /\ pos = Len(stream)) => Consumed)
    /\ [][(Consumed /\ ~panicked) =>
            /\ Failed'
            /\ res' \in {Nil, ListV(<<>>)}
            /\ pos' = pos /\ Consumed' = Consumed /\ Last' = Last]_vars

C3_Witness ==
    /\ call \in {"Decode", "DecodeAll"} /\ ~first /\ Failed
    /\ Len(stream) > 0 /\ pos = Len(stream) /\ Last = pos /\ Consumed

(* C4: DecodeAll on a fresh decoder over the concatenated encodings of     *)
(* v1..vn (n >= 1; integers, strings, non-empty lists and dicts) returns   *)
(* [v1, ..., vn] and no error, with the cursor at the end of the buffer.   *)
C4_ConcatenatedStream ==
    (/\ Called("DecodeAll")
     /\ Len(encoded) >= 1
     /\ \A i \in 1..Len(encoded) : NoEmptyCollection(encoded[i]))
    => (Succeeded /\ res = ListV(encoded) /\ pos = Len(stream))

C4_Witness ==
    /\ Called("DecodeAll") /\ Succeeded
    /\ Len(encoded) >= 2
    /\ \A i \in 1..Len(encoded) : NoEmptyCollection(encoded[i])
    /\ \E i \in 1..Len(encoded) : encoded[i].k \in {"list", "dict"}
    /\ res = ListV(encoded)

(* C5: the encoding of a non-empty dict is d, then each key in strictly    *)
(* ascending byte-wise order followed by the encoding of its value, then   *)
(* e, whatever order the map is ranged in.                                 *)
C5_CanonicalDict ==
    (call = "Encode" /\ Len(encoded) = 1 /\ encoded[1].k = "dict" /\ DOMAIN encoded[1].v # {})
    => \A order \in Orders :
         LET m == encoded[1].v
             keys == Ascending(m)
         IN  Bytes = <<ChD>>
                     \o ConcatEncodings(
                          [i \in 1..(2 * Len(keys)) |->
                             IF i % 2 = 1 THEN StrV(keys[(i + 1) \div 2]) ELSE m[keys[i \div 2]]],
                          order)
                     \o <<ChE>>

C5_Witness ==
    /\ call = "Encode" /\ Len(encoded) = 1 /\ encoded[1].k = "dict"
    /\ Cardinality(DOMAIN encoded[1].v) >= 2
    /\ NoEmptyCollection(encoded[1])
    /\ Bytes[1] = ChD /\ Bytes[Len(Bytes)] = ChE

(* C6: Bytes is the concatenation, in call order and with no separators,   *)
(* of the encodings of the values passed to Encode, and no step takes      *)
(* away or changes a byte already in Bytes.                                *)
C6_AppendOnly ==
    /\ [](\A order \in Orders : Bytes = ConcatEncodings(encoded, order))
    /\ [][IsPrefix(Bytes, Bytes')]_vars

C6_Witness ==
    /\ call = "Encode" /\ Len(encoded) >= 2
    /\ \A i \in 1..Len(encoded) : NoEmptyCollection(encoded[i])
    /\ \E order \in Orders : Len(Bytes) > Len(encodeObject(encoded[1], order))

(* C7: a Decode that returns an error returns no value with it: nothing    *)
(* of a list or dict parsed before the failure.                            *)
C7_FailingDecodeAtomic ==
    (call = "Decode" /\ Failed)
    => res \in {Nil, IntV(0), StrV(<<>>), ListV(<<>>), DictV(<<>>)}

(* C8: Decode accepts le and de, alone and as a list item or a dict value, *)
(* and returns the empty list or dict with the cursor past the closing e.  *)
C8_EmptyCollectionsDecode ==
    Called("Decode") =>
        /\ stream = <<ChL, ChE>> => (Succeeded /\ res = ListV(<<>>) /\ pos = 2)
        /\ stream = <<ChD, ChE>> => (Succeeded /\ res = DictV(<<>>) /\ pos = 2)
        /\ stream = <<ChL, ChL, ChE, ChE>>
             => (Succeeded /\ res = ListV(<<ListV(<<>>)>>) /\ pos = 4)
        /\ stream = <<ChL, ChD, ChE, ChE>>
             => (Succeeded /\ res = ListV(<<DictV(<<>>)>>) /\ pos = 4)
        /\ stream = <<ChD, Ch0, ChColon, ChL, ChE, ChE>>
             => (Succeeded /\ res = DictV(MapSet(<<>>, <<>>, ListV(<<>>))) /\ pos = 6)
        /\ stream = <<ChD, Ch0, ChColon, ChD, ChE, ChE>>
             => (Succeeded /\ res = DictV(MapSet(<<>>, <<>>, DictV(<<>>))) /\ pos = 6)

(* the buffer holds complete values one after another and nothing else *)
CompleteItems(s) ==
    LET r == decodeAllLoop(s, 0, FALSE, <<>>) IN
    Len(s) > 0 /\ ~r.panic /\ r.err = ErrNil /\ r.pos = Len(s)

(* the buffer holds complete key/value pairs and then, maybe, one more key *)
CompletePairs(s) ==
    LET r == decodeAllLoop(s, 0, FALSE, <<>>) IN
    /\ CompleteItems(s)
    /\ \A i \in 1..Len(r.res.v) : i % 2 = 1 => r.res.v[i].k = "str"

(* C9: Decode over a list or dict that ends after a complete item, pair or *)
(* key with no terminating e returns an error and reads nothing outside    *)
(* the buffer.                                                             *)
C9_UnterminatedCollectionFails ==
    (/\ Called("Decode")
     /\ Len(stream) > 1
     /\ \/ stream[1] = ChL /\ CompleteItems(Tail(stream))
        \/ stream[1] = ChD /\ CompletePairs(Tail(stream)))
    => Failed

(* the buffer is an i and then digits and - only, with no e *)
UnterminatedInteger(s) ==
    /\ Len(s) > 0 /\ s[1] = ChI
    /\ \A i \in 2..Len(s) : (s[i] >= Ch0 /\ s[i] <= Ch9) \/ s[i] = ChMinus

(* C10: Decode over an integer with no terminating e (alone, or last in a  *)
(* list or dict) returns an error, leaves the cursor where the integer     *)
(* started and reads nothing outside the buffer.                           *)
C10_UnterminatedIntegerFails ==
    Called("Decode") =>
        \A start \in {0, 1, 3} :
            (/\ start <= Len(stream)
             /\ SubSeq(stream, 1, start) \in {<<>>, <<ChL>>, <<ChD, Ch0, ChColon>>}
             /\ UnterminatedInteger(SubSeq(stream, start + 1, Len(stream))))
            => (Failed /\ pos = start)

====
